---- MODULE Spec2Model ----
(***************************************************************************)
(* Face analysis pipeline: BlazeFace post-processing (score threshold,     *)
(* anchor decode, weighted non-max suppression), landmark-driven box       *)
(* refinement, emotion / gender-age post-processing and the aggregation    *)
(* of per-face records.                                                    *)
(*                                                                         *)
(* Floating point values are modelled as exact rationals <<n, d>> with     *)
(* d > 0 in lowest terms.  Logits are integers in units of ln 2, so that   *)
(* exp and the logistic sigmoid are exact powers of two.                   *)
(***************************************************************************)
EXTENDS Integers, Sequences, FiniteSets, TLC

VARIABLES
    pc,                 \* position of the request in the pipeline
    anchors,            \* FaceDetection.anchors (one row per slot)
    raw_boxes,          \* detector output, 16 offsets per slot
    raw_scores,         \* detector output, one logit per slot
    back_model,         \* FaceDetection(back_model=...)
    score_threshold,    \* argument of detect, None when omitted
    nms_threshold,      \* argument of detect, None when omitted
    score_thresh,       \* resolved score threshold of detect
    nms_thresh,         \* resolved IoU threshold of detect
    detections,         \* thresholded decoded detections (17 values each)
    remaining,          \* indices still to be suppressed
    output,             \* suppressed detections
    width, height,      \* frame_bgr.shape
    printed,            \* what detect printed: gaps and highly_tilted
    results,            \* List[Detection] returned by detect
    emotion_labels,     \* StreamingFaceAnalysis.emotion_labels
    gender_age_outputs, \* outputs[0] of the gender/age session.run
    emotion_outputs,    \* outputs[0] of the emotion session.run
    gender_age_results, \* GenderAgePredictor.predict(...)
    emotion_results,    \* EmotionPredictor.predict(...)
    session_runs,       \* number of classifier session.run calls
    faces,              \* analyze(...)["faces"]
    error,              \* exception raised by the request, or "none"
    app,                \* the application: created, started, or failed to start
    global_pipeline,    \* service_api._pipeline
    constructed,        \* StreamingFaceAnalysis constructions that succeeded
    calls,              \* calls of the service so far
    svc,                \* position of the service: ready, or in analyze_image
    pipeline,           \* local pipeline of analyze_image
    returned,           \* the handles get_pipeline has returned
    response            \* status of the last response, 0 before the first

cfgVars == <<anchors, back_model, emotion_labels>>
reqVars == <<raw_boxes, raw_scores, score_threshold, nms_threshold,
             score_thresh, nms_thresh, width, height>>
nmsVars == <<detections, remaining, output>>
refVars == <<printed, results>>
clsVars == <<gender_age_outputs, emotion_outputs, gender_age_results,
             emotion_results, session_runs>>
outVars == <<faces, error>>
svcVars == <<app, global_pipeline, constructed, calls, svc, pipeline, returned,
             response>>

vars == <<pc, cfgVars, reqVars, nmsVars, refVars, clsVars, outVars, svcVars>>

----------------------------------------------------------------------------
(* Exact rational arithmetic standing for float arithmetic.                *)

Abs(x) == IF x < 0 THEN -x ELSE x

RECURSIVE Gcd(_, _)
Gcd(a, b) == IF b = 0 THEN a ELSE Gcd(b, a % b)

Rat(n, d) ==
    LET s == IF d < 0 THEN -1 ELSE 1
        g == Gcd(Abs(n), Abs(d))
    IN  <<(s * n) \div g, (s * d) \div g>>

I(n) == <<n, 1>>

\* sums, products and comparisons reduce by common factors first, so that
\* intermediate values stay small
RAdd(a, b) ==
    LET g == Gcd(a[2], b[2])
    IN  Rat(a[1] * (b[2] \div g) + b[1] * (a[2] \div g), (a[2] \div g) * b[2])
RNeg(a) == <<-a[1], a[2]>>
RSub(a, b) == RAdd(a, RNeg(b))
RMul(a, b) ==
    LET g1 == Gcd(Abs(a[1]), b[2])
        g2 == Gcd(Abs(b[1]), a[2])
    IN  Rat((a[1] \div g1) * (b[1] \div g2), (a[2] \div g2) * (b[2] \div g1))
RInv(a) == IF a[1] < 0 THEN <<-a[2], -a[1]>> ELSE <<a[2], a[1]>>
RDiv(a, b) == RMul(a, RInv(b))
\* a < b, compared by integer parts and then by the reciprocals of the
\* fractional parts (no products are formed)
RECURSIVE RLt(_, _)
RLt(a, b) ==
    LET fa == a[1] \div a[2]
        fb == b[1] \div b[2]
        ra == a[1] % a[2]
        rb == b[1] % b[2]
    IN  IF fa # fb THEN fa < fb
        ELSE IF rb = 0 THEN FALSE
        ELSE IF ra = 0 THEN TRUE
        ELSE RLt(<<b[2], rb>>, <<a[2], ra>>)
RLe(a, b) == ~RLt(b, a)
RGt(a, b) == RLt(b, a)
RGe(a, b) == RLe(b, a)
RMax(a, b) == IF RLt(a, b) THEN b ELSE a
RMin(a, b) == IF RLt(b, a) THEN b ELSE a
RAbs(a) == <<Abs(a[1]), a[2]>>

\* np.clip(x, a_min, a_max) = minimum(maximum(x, a_min), a_max)
RClip(x, lo, hi) == RMin(RMax(x, lo), hi)

\* floor of a rational (\div rounds towards minus infinity)
RFloor(a) == a[1] \div a[2]

\* int(x): truncation towards zero
RTrunc(a) == IF a[1] >= 0 THEN a[1] \div a[2] ELSE -((-a[1]) \div a[2])

\* round(x) of a Python float: to nearest, ties to the even integer
RRound(a) ==
    LET f == RFloor(a)
        twice == 2 * (a[1] - f * a[2])      \* 2 * fractional part * d
    IN  IF twice < a[2] THEN f
        ELSE IF twice > a[2] THEN f + 1
        ELSE IF f % 2 = 0 THEN f ELSE f + 1

RECURSIVE RSum(_)
RSum(s) == IF s = <<>> THEN I(0) ELSE RAdd(Head(s), RSum(Tail(s)))

RECURSIVE Pow2(_)
Pow2(k) == IF k = 0 THEN 1 ELSE 2 * Pow2(k - 1)

Max(a, b) == IF a < b THEN b ELSE a
Min(a, b) == IF a < b THEN a ELSE b

\* the element of a singleton; The({F(x) : x \in {v}}) is F(v) with v
\* evaluated once, as a local variable holding v
The(S) == CHOOSE r \in S : TRUE

----------------------------------------------------------------------------
(* FaceDetection: constants set by __init__.                               *)

\* image_size = x_scale = y_scale = w_scale = h_scale
x_scale(back) == IF back THEN 256 ELSE 128

min_score_thresh(back) == IF back THEN Rat(65, 100) ELSE Rat(25, 100)

min_suppression_threshold == Rat(3, 10)

score_clipping_thresh == 100

\* the floor of the union in _jaccard, 1e-6
UnionFloor == Rat(1, 1000000)

None == "None"

\* None where the other values are records
PyNone == [t |-> "none", i |-> 0, s |-> ""]

----------------------------------------------------------------------------
(* FaceDetection: score path and anchor decode.                            *)

ClipInt(x, lo, hi) == Min(Max(x, lo), hi)

\* 1 / (1 + exp(-x)) with x in units of ln 2
Sigmoid(x) == IF x >= 0 THEN Rat(Pow2(x), Pow2(x) + 1) ELSE Rat(1, 1 + Pow2(-x))

\* detection_scores of _postprocess
DetectionScore(raw) ==
    Sigmoid(ClipInt(raw, -score_clipping_thresh, score_clipping_thresh))

\* one row of _decode_boxes; raw is a row of raw_boxes, a a row of anchors
\* (a[1], a[2] the anchor centre, a[3], a[4] its width and height)
DecodeRow(raw, a, scale) ==
    LET sc == I(scale)
        x_center == RAdd(RMul(RDiv(raw[1], sc), a[3]), a[1])
        y_center == RAdd(RMul(RDiv(raw[2], sc), a[4]), a[2])
        w == RMul(RDiv(raw[3], sc), a[3])
        h == RMul(RDiv(raw[4], sc), a[4])
        half(v) == RDiv(v, I(2))
    IN  [j \in 1..16 |->
            IF j = 1 THEN RSub(y_center, half(h))       \* ymin
            ELSE IF j = 2 THEN RSub(x_center, half(w))  \* xmin
            ELSE IF j = 3 THEN RAdd(y_center, half(h))  \* ymax
            ELSE IF j = 4 THEN RAdd(x_center, half(w))  \* xmax
            ELSE IF j % 2 = 1
                 THEN RAdd(RMul(RDiv(raw[j], sc), a[3]), a[1])   \* keypoint_x
                 ELSE RAdd(RMul(RDiv(raw[j], sc), a[4]), a[2])]  \* keypoint_y

\* the mask that keeps every slot
RECURSIVE MaskedSlotsAll(_, _, _)
MaskedSlotsAll(scores, thresh, i) ==
    IF i > Len(scores) THEN <<>>
    ELSE <<i>> \o MaskedSlotsAll(scores, thresh, i + 1)

\* the mask taken on the raw logits instead of the sigmoid confidences
RECURSIVE MaskedSlotsOnLogits(_, _, _)
MaskedSlotsOnLogits(scores, thresh, i) ==
    IF i > Len(scores) THEN <<>>
    ELSE (IF RGe(I(scores[i]), thresh) THEN <<i>> ELSE <<>>)
         \o MaskedSlotsOnLogits(scores, thresh, i + 1)

\* indices of the slots whose score reaches the threshold, in slot order
RECURSIVE MaskedSlots(_, _, _)
MaskedSlots(scores, thresh, i) ==
    IF i > Len(scores) THEN <<>>
    ELSE (IF RGe(DetectionScore(scores[i]), thresh) THEN <<i>> ELSE <<>>)
         \o MaskedSlots(scores, thresh, i + 1)

\* np.concatenate([boxes, scores[:, None]], axis=1) over the masked slots
Thresholded(rboxes, rscores, anch, scale, thresh) ==
    LET kept == MaskedSlots(rscores, thresh, 1)
    IN  [k \in 1..Len(kept) |->
            DecodeRow(rboxes[kept[k]], anch[kept[k]], scale)
            \o <<DetectionScore(rscores[kept[k]])>>]

----------------------------------------------------------------------------
(* FaceDetection: weighted non-max suppression.                            *)

RPos(a) == RMax(a, I(0))

\* _intersect: boxes are (ymin, xmin, ymax, xmax)
Intersect(box_a, box_b) ==
    LET i0 == RPos(RSub(RMin(box_a[3], box_b[3]), RMax(box_a[1], box_b[1])))
        i1 == RPos(RSub(RMin(box_a[4], box_b[4]), RMax(box_a[2], box_b[2])))
    IN  RMul(i0, i1)

BoxArea(b) == RMul(RSub(b[3], b[1]), RSub(b[4], b[2]))

\* _jaccard
Jaccard(box_a, box_b) ==
    LET inter == Intersect(box_a, box_b)
        union == RSub(RAdd(BoxArea(box_a), BoxArea(box_b)), inter)
    IN  RDiv(inter, RMax(union, UnionFloor))

\* mutant: the [::-1] is lost, the order is ascending
ArgsortAsc(dets) ==
    LET n == Len(dets)
    IN  {p \in [1..n -> 1..n] :
            /\ \A i, j \in 1..n : i # j => p[i] # p[j]
            /\ \A i \in 1..n : i < n => RLe(dets[p[i]][17], dets[p[i + 1]][17])}

\* np.argsort(detections[:, 16])[::-1]: the order among equal scores is not
\* fixed by argsort's default sort, so every descending order is possible
ArgsortDesc(dets) ==
    LET n == Len(dets)
    IN  {p \in [1..n -> 1..n] :
            /\ \A i, j \in 1..n : i # j => p[i] # p[j]
            /\ \A i \in 1..n : i < n => RGe(dets[p[i]][17], dets[p[i + 1]][17])}

\* mask = ious > min_suppression_threshold, for the index i of remaining
Overlaps(dets, cand, i, thresh) == RGt(Jaccard(dets[cand], dets[i]), thresh)

RECURSIVE RMaxSeq(_)
RMaxSeq(q) == IF Len(q) = 1 THEN q[1] ELSE RMax(Head(q), RMaxSeq(Tail(q)))

\* mutant: the merged detection keeps the highest score, as plain NMS does
MergedScoreMax(scores) == RMaxSeq(scores)

\* total_score / overlapping.size
MergedScore(scores) == RDiv(RSum(scores), I(Len(scores)))

\* np.sum(coordinates * scores, axis=0) / total_score, for coordinate j
MergedCoordinate(dets, overlapping, j) ==
    RDiv(RSum([k \in 1..Len(overlapping) |->
                  RMul(dets[overlapping[k]][j], dets[overlapping[k]][17])]),
         RSum([k \in 1..Len(overlapping) |-> dets[overlapping[k]][17]]))

\* weighted_detection of one loop iteration
WeightedDetection(dets, cand, overlapping) ==
    IF Len(overlapping) > 1
    THEN [j \in 1..17 |->
            IF j <= 16 THEN MergedCoordinate(dets, overlapping, j)
            ELSE MergedScore([k \in 1..Len(overlapping) |-> dets[overlapping[k]][17]])]
    ELSE dets[cand]

\* one iteration of the while loop of _weighted_non_max_suppression
\* (overlapping is bound once, as a value)
NmsIteration(dets, rem, thresh) ==
    CHOOSE it \in
        {[overlapping |-> o,
          remaining |-> SelectSeq(rem, LAMBDA i : ~Overlaps(dets, rem[1], i, thresh)),
          emitted |-> WeightedDetection(dets, rem[1], o)] :
            o \in {SelectSeq(rem, LAMBDA i : Overlaps(dets, rem[1], i, thresh))}} : TRUE

----------------------------------------------------------------------------
(* FaceDetection.detect: pixel scaling, tilt test and box tightening.      *)

\* int(np.clip(v * dim, 0, dim - 1))
ClampPx(v, dim) == RTrunc(RClip(RMul(v, I(dim)), I(0), I(dim - 1)))

\* keypoints of a suppressed detection, in pixels (lines 210-216)
Keypoints(det, w, h) ==
    [k \in 1..6 |-> <<ClampPx(det[3 + 2 * k], w), ClampPx(det[4 + 2 * k], h)>>]

\* the raw clamped box (xmin, ymin, xmax, ymax) (lines 202-206)
RawClampedBox(det, w, h) ==
    <<ClampPx(det[2], w), ClampPx(det[1], h), ClampPx(det[4], w), ClampPx(det[3], h)>>

\* left_gap and right_gap (lines 226-227)
LeftGap(kp) == Abs(kp[5][1] - kp[1][1])
RightGap(kp) == Abs(kp[6][1] - kp[2][1])

\* mutant: a gap of exactly twice the other counts as tilted
HighlyTiltedAtTwice(left_gap, right_gap) ==
    /\ right_gap > 0 /\ left_gap > 0
    /\ (left_gap >= right_gap * 2 \/ right_gap >= left_gap * 2)

\* highly_tilted (lines 229-232)
HighlyTilted(left_gap, right_gap) ==
    /\ right_gap > 0 /\ left_gap > 0
    /\ (left_gap > right_gap * 2 \/ right_gap > left_gap * 2)

\* shrink_factor = 0.95
shrink_factor == Rat(95, 100)

\* the tightened (xmin_int, xmax_int) of a face that is not tilted
\* (lines 224, 239-263)
TightenedSpan(kp, w) ==
    LET left_anchor == kp[5][1]
        right_anchor == kp[6][1]
        anchor_width == Max(right_anchor - left_anchor, 1)
        anchor_center_x == Rat(left_anchor + right_anchor, 2)
        half_width == RMax(RMul(RMul(I(anchor_width), shrink_factor), Rat(1, 2)), I(1))
        base_xmin == RSub(anchor_center_x, half_width)
        base_xmax == RAdd(anchor_center_x, half_width)
        nose_x == I(kp[3][1])
        width_span == RMax(RSub(base_xmax, base_xmin), I(1))
        half_span == RDiv(width_span, I(2))
        cmin0 == RMax(RSub(nose_x, half_span), I(0))
        cmax0 == RMin(RAdd(nose_x, half_span), I(w - 1))
        span == RSub(cmax0, cmin0)
        deficit == RSub(width_span, span)
        centered_xmin == IF RLt(span, width_span)
                         THEN RMax(RSub(cmin0, RDiv(deficit, I(2))), I(0))
                         ELSE cmin0
        centered_xmax == IF RLt(span, width_span)
                         THEN RMin(RAdd(cmax0, RDiv(deficit, I(2))), I(w - 1))
                         ELSE cmax0
        xmin1 == Max(RRound(centered_xmin), 0)
        xmax1 == Max(RRound(centered_xmax), xmin1 + 1)
        xmax2 == Min(xmax1, w - 1)
        xmin2 == Min(xmin1, xmax2 - 1)
    IN  <<xmin2, xmax2>>

\* mutant: the tilt test is ignored and every box is tightened
RefinedBoxAlwaysTightened(det, w, h) ==
    The({<<t[1], ClampPx(det[1], h), t[2], ClampPx(det[3], h)>> :
            t \in {TightenedSpan(Keypoints(det, w, h), w)}})

\* a tightening that also makes the box square, moving ymax
BoxForSquare(kp, raw, w) ==
    IF HighlyTilted(LeftGap(kp), RightGap(kp))
    THEN raw
    ELSE The({<<t[1], raw[2], t[2], raw[2] + (t[2] - t[1])>> : t \in {TightenedSpan(kp, w)}})

\* the box of the Detection (lines 236-265)
BoxFor(kp, raw, w) ==
    IF HighlyTilted(LeftGap(kp), RightGap(kp))
    THEN raw
    ELSE The({<<t[1], raw[2], t[2], raw[4]>> : t \in {TightenedSpan(kp, w)}})

RefinedBox(det, w, h) ==
    The({BoxFor(kp, raw, w) : kp \in {Keypoints(det, w, h)},
                              raw \in {RawClampedBox(det, w, h)}})

\* one iteration of the for loop of detect: the Detection appended to results
RefinedDetection(det, w, h) ==
    [box |-> RefinedBox(det, w, h),
     score |-> det[17],
     keypoints |-> Keypoints(det, w, h)]

\* the line printed by that iteration (line 234)
PrintedLine(det, w, h) ==
    The({[left_gap |-> LeftGap(kp),
          right_gap |-> RightGap(kp),
          highly_tilted |-> HighlyTilted(LeftGap(kp), RightGap(kp))] :
            kp \in {Keypoints(det, w, h)}})

----------------------------------------------------------------------------
(* Classifier post-processing.                                             *)

\* Python values whose type matters: an int and a str
PyInt(n) == [t |-> "int", i |-> n, s |-> ""]
PyStr(str) == [t |-> "str", i |-> 0, s |-> str]

\* list[index] of Python for an index in -len..len-1: a negative index
\* counts from the end
PyIndex(list, index) == list[(IF index < 0 THEN index + Len(list) ELSE index) + 1]

\* np.argmax: the (0-based) position of the first maximum
Argmax(q) ==
    (CHOOSE k \in 1..Len(q) :
        /\ \A j \in 1..Len(q) : RLe(q[j], q[k])
        /\ \A j \in 1..(k - 1) : RLt(q[j], q[k])) - 1

\* outputs.size == 0
IsEmptyArray(outputs) == Len(outputs) = 0 \/ \A i \in 1..Len(outputs) : Len(outputs[i]) = 0

\* EmotionPredictor.classes
emotion_classes == <<"angry", "disgust", "fear", "happy", "sad", "surprise", "neutral">>

RECURSIVE MaxOf(_)
MaxOf(q) == IF Len(q) = 1 THEN q[1] ELSE Max(Head(q), MaxOf(Tail(q)))

\* the softmax of one row of logits (lines 70-73), logits in units of ln 2
Softmax(row) ==
    LET top == MaxOf(row)
        exp == [k \in 1..Len(row) |-> Rat(1, Pow2(top - row[k]))]
    IN  [k \in 1..Len(row) |-> RDiv(exp[k], RSum(exp))]

\* emotion_index of a probability row (lines 77-82)
EmotionIndex(probability) ==
    IF RLt(probability[Argmax(probability) + 1], Rat(1, 2))
    THEN -1
    ELSE Argmax(probability)

\* the tuple appended to results for a probability row (lines 77-84)
EmotionResult(probability) ==
    <<PyStr(PyIndex(emotion_classes, EmotionIndex(probability))),
      probability[Argmax(probability) + 1],
      probability>>

\* EmotionPredictor.postprocess
EmotionPostprocess(outputs) ==
    IF IsEmptyArray(outputs) THEN <<>>
    ELSE [i \in 1..Len(outputs) |-> The({EmotionResult(probability) : probability \in {Softmax(outputs[i])}})]

\* EmotionPredictor.predict for a batch of `batch` aligned faces, the session
\* returning engine_out: an empty tensor is not run
EmotionPredict(batch, engine_out) ==
    EmotionPostprocess(IF batch = 0 THEN <<>> ELSE engine_out)

\* GenderAgePredictor.classes and age_range
gender_classes == <<"female", "male">>
age_range == <<"0-18", "19-36", "37-60", "60+">>

\* GenderAgePredictor._age_label
AgeLabel(age_value) ==
    IF age_value <= 18 THEN age_range[1]
    ELSE IF age_value <= 36 THEN age_range[2]
    ELSE IF age_value <= 60 THEN age_range[3]
    ELSE age_range[4]

\* GenderAgePredictor.postprocess
GenderAgePostprocess(outputs) ==
    [i \in 1..Len(outputs) |->
        <<PyIndex(gender_classes, Argmax(SubSeq(outputs[i], 1, 2))),
          AgeLabel(RRound(RMul(outputs[i][3], I(100))))>>]

\* GenderAgePredictor.predict
GenderAgePredict(batch, engine_out) ==
    GenderAgePostprocess(IF batch = 0 THEN <<>> ELSE engine_out)

\* session.run calls of one predict over a batch
SessionRuns(batch) == IF batch = 0 THEN 0 ELSE 1

----------------------------------------------------------------------------
(* StreamingFaceAnalysis.analyze: aggregation.                             *)

\* emotion_label of a record (lines 114-118): the comparison 0 <= label_idx
\* is evaluated only when a label list is configured, and raises TypeError
\* on a str
ResolveLabel(labels, label_idx) ==
    IF labels = None THEN [raised |-> FALSE, value |-> label_idx]
    ELSE IF label_idx.t # "int" THEN [raised |-> TRUE, value |-> PyNone]
    ELSE IF 0 <= label_idx.i /\ label_idx.i < Len(labels)
         THEN [raised |-> FALSE, value |-> PyStr(labels[label_idx.i + 1])]
         ELSE [raised |-> FALSE, value |-> label_idx]

\* AggregatedFaceResult of detection idx (lines 103-133)
AggregatedFace(idx, det, ga_results, emo_results, labels) ==
    [bbox |-> det.box,
     score |-> det.score,
     keypoints |-> det.keypoints,
     gender |-> IF idx <= Len(ga_results) THEN ga_results[idx][1] ELSE None,
     age_bucket |-> IF idx <= Len(ga_results) THEN ga_results[idx][2] ELSE None,
     emotion_label |-> IF idx <= Len(emo_results)
                       THEN ResolveLabel(labels, emo_results[idx][1]).value
                       ELSE PyNone,
     emotion_confidence |-> IF idx <= Len(emo_results) THEN emo_results[idx][2] ELSE None,
     emotion_distribution |-> IF idx <= Len(emo_results) THEN emo_results[idx][3] ELSE None]

\* AggregatedFaceResult.as_dict
AsDict(face) ==
    [bbox |-> [xmin |-> face.bbox[1], ymin |-> face.bbox[2],
               xmax |-> face.bbox[3], ymax |-> face.bbox[4]],
     score |-> face.score,
     keypoints |-> [k \in 1..Len(face.keypoints) |->
                       [x |-> face.keypoints[k][1], y |-> face.keypoints[k][2]]],
     gender |-> face.gender,
     age_bucket |-> face.age_bucket,
     emotion |-> IF face.emotion_label # PyNone
                 THEN [label |-> face.emotion_label,
                       confidence |-> face.emotion_confidence,
                       distribution |-> face.emotion_distribution]
                 ELSE PyNone]

----------------------------------------------------------------------------
(* Inputs.                                                                 *)

\* number of detector slots (896 in the anchors file)
NumSlots == 2

\* iterations of a suppression loop that makes no progress that are followed
HangSteps == 1

UnitAnchor == <<Rat(1, 2), Rat(1, 2), I(1), I(1)>>
HalfAnchor == <<Rat(1, 2), Rat(1, 2), Rat(1, 2), Rat(1, 2)>>

\* a raw_boxes row: box centre (cx, cy), size (w, h) and six keypoints laid
\* out inside the box (eyes, nose, mouth, ears), in detector pixels
RawRow(cx, cy, w, h) ==
    LET q(v) == RDiv(v, I(4))
        hf(v) == RDiv(v, I(2))
    IN  <<cx, cy, w, h,
          RSub(cx, q(w)), RSub(cy, q(h)),      \* right eye
          RAdd(cx, q(w)), RSub(cy, q(h)),      \* left eye
          cx, cy,                              \* nose
          cx, RAdd(cy, q(h)),                  \* mouth
          RSub(cx, hf(w)), cy,                 \* right ear
          RAdd(cx, hf(w)), cy>>                \* left ear

RawBig == RawRow(I(0), I(0), I(64), I(64))          \* box [1/4, 3/4]^2
RawHalf == RawRow(I(-16), I(0), I(32), I(64))       \* IoU 1/2 with RawBig
RawTiny == RawRow(I(48), I(0), Rat(1, 16), Rat(1, 16))  \* area below 1e-6
RawFlat == RawRow(I(0), I(-56), I(64), I(0))        \* zero area, at the top edge

RawRows == {RawBig, RawHalf, RawTiny, RawFlat}

\* logits in units of ln 2: scores 1/5, 1/2, 2/3
RawLogits == {-2, 0, 1}

\* slots <<raw_boxes row, raw_scores logit>>: every row with a score that
\* passes the default threshold, and one slot that never passes
RawSlots == (RawRows \X {0, 1}) \cup {<<RawBig, -2>>}

\* the outputs <<raw_boxes, raw_scores>> of the detector over these slots
RawTables ==
    {<<[i \in 1..NumSlots |-> f[i][1]], [i \in 1..NumSlots |-> f[i][2]]>> :
        f \in [1..NumSlots -> RawSlots]}

OptScoreThresholds == {None, Rat(13, 20)}
OptNmsThresholds == {None, Rat(1, 2), I(1)}

----------------------------------------------------------------------------
(* The request, step by step.                                              *)

\* service_api at import: no handle, no call yet
InitService ==
    /\ app = "created"
    /\ global_pipeline = PyNone
    /\ constructed = 0
    /\ calls = 0
    /\ svc = "ready"
    /\ pipeline = PyNone
    /\ returned = {}
    /\ response = 0

\* a threshold read as "argument or default": 0.0 counts as omitted
ResolveThresholdOr(threshold, default) ==
    IF threshold # None /\ threshold # I(0) THEN threshold ELSE default

\* score_thresh and nms_thresh of detect (lines 186-187)
ResolveThreshold(threshold, default) ==
    IF threshold # None THEN threshold ELSE default

\* FaceDetection.detect up to _infer: the thresholds are resolved, the frame
\* is measured and the inference engine returns the raw outputs
Detect(tables, sthrs, nthrs, dims) ==
    /\ pc = "idle"
    /\ score_threshold' \in sthrs
    /\ nms_threshold' \in nthrs
    /\ score_thresh' = ResolveThreshold(score_threshold', min_score_thresh(back_model))
    /\ nms_thresh' = ResolveThreshold(nms_threshold', min_suppression_threshold)
    /\ \E t \in tables :
         /\ raw_boxes' = t[1]
         /\ raw_scores' = t[2]
    /\ \E d \in dims : width' = d[1] /\ height' = d[2]
    /\ pc' = "postprocess"
    /\ UNCHANGED <<svcVars, cfgVars, nmsVars, refVars, clsVars, outVars>>

\* _postprocess up to the first test of the suppression loop
Postprocess ==
    /\ pc = "postprocess"
    /\ \E dets \in {Thresholded(raw_boxes, raw_scores, anchors,
                                  x_scale(back_model), score_thresh)} :
         /\ detections' = dets
         /\ IF dets = <<>>
            THEN /\ remaining' = <<>>
                 /\ pc' = "refine"
            ELSE /\ remaining' \in ArgsortDesc(dets)
                 /\ pc' = "nms"
    /\ output' = <<>>
    /\ UNCHANGED <<svcVars, cfgVars, reqVars, refVars, clsVars, outVars>>

\* one iteration of the while loop (lines 90-108)
NmsStep ==
    /\ pc = "nms"
    /\ remaining # <<>>
    /\ Len(output) < Len(detections) + HangSteps
    /\ \E it \in {NmsIteration(detections, remaining, nms_thresh)} :
         /\ remaining' = it.remaining
         /\ output' = Append(output, it.emitted)
    /\ UNCHANGED <<pc, detections, svcVars, cfgVars, reqVars, refVars, clsVars, outVars>>

\* the loop ends and _postprocess returns output
NmsReturn ==
    /\ pc = "nms"
    /\ remaining = <<>>
    /\ pc' = "refine"
    /\ UNCHANGED <<svcVars, cfgVars, reqVars, nmsVars, refVars, clsVars, outVars>>

DetectRequest ==
    Detect(RawTables, OptScoreThresholds, OptNmsThresholds, {<<128, 128>>})

InitDetector ==
    /\ pc = "idle"
    /\ anchors = [i \in 1..NumSlots |-> UnitAnchor]
    /\ back_model = FALSE
    /\ raw_boxes = <<>>
    /\ raw_scores = <<>>
    /\ score_threshold = None
    /\ nms_threshold = None
    /\ score_thresh = None
    /\ nms_thresh = None
    /\ detections = <<>>
    /\ remaining = <<>>
    /\ output = <<>>
    /\ width = 0
    /\ height = 0
    /\ printed = <<>>
    /\ results = <<>>
    /\ emotion_labels = None
    /\ gender_age_outputs = <<>>
    /\ emotion_outputs = <<>>
    /\ gender_age_results = <<>>
    /\ emotion_results = <<>>
    /\ session_runs = 0
    /\ faces = None
    /\ error = "none"
    /\ InitService

NextNms == DetectRequest \/ Postprocess \/ NmsStep \/ NmsReturn

\* score threshold, decode and weighted suppression of one request
SpecNms == InitDetector /\ [][NextNms]_vars

\* the for loop of detect over the suppressed detections (lines 198-281)
Refine ==
    /\ pc = "refine"
    /\ results' = [i \in 1..Len(output) |-> RefinedDetection(output[i], width, height)]
    /\ printed' = printed \o
                    [i \in 1..Len(output) |-> PrintedLine(output[i], width, height)]
    /\ pc' = "detected"
    /\ UNCHANGED <<svcVars, cfgVars, reqVars, nmsVars, clsVars, outVars>>

\* a raw_boxes row of a face given by its box and the x offsets of its eyes,
\* nose and ears (keypoints 0, 1, 2, 4, 5), in detector pixels
FaceRow(box, eye_left, eye_right, nose, ear_left, ear_right) ==
    <<box[1], box[2], box[3], box[4],
      I(eye_left), I(-8), I(eye_right), I(-8), I(nose), I(0), I(nose), I(8),
      I(ear_left), I(0), I(ear_right), I(0)>>

\* boxes (cx, cy, w, h): inside the frame, and below the frame's lower edge
FaceBoxes == {<<I(0), I(0), I(64), I(64)>>, <<I(0), I(128), I(64), I(32)>>}

\* with a unit anchor and a frame 128 wide the pixel is the offset + 64:
\* left gaps 10, 0, 10 (reversed), right gaps 10, 20, 21, 30
UprightRows ==
    {FaceRow(b, -24, 16, n, el, er) :
        b \in FaceBoxes, n \in {-62, 0, 62}, el \in {-34, -24, -14},
        er \in {26, 36, 37, 46}}

\* a mirrored face: keypoints 1 and 5 lie left of keypoints 0 and 4, gaps 20
\* and 10
MirroredRows == {FaceRow(b, 16, -24, 0, 36, -34) : b \in FaceBoxes}

FaceRows == UprightRows \cup MirroredRows

\* the first slot holds the face, the others a second detection or nothing
FaceTables ==
    {<<[i \in 1..NumSlots |-> IF i = 1 THEN r ELSE RawHalf],
       [i \in 1..NumSlots |-> IF i = 1 THEN 1 ELSE l]>> :
        r \in FaceRows, l \in {-2, 0}}

FrameSizes == {<<128, 128>>, <<100, 50>>, <<2, 1>>, <<1, 1>>}

DetectFace == Detect(FaceTables, {None}, {None}, FrameSizes)

NextRefine == DetectFace \/ Postprocess \/ NmsStep \/ NmsReturn \/ Refine

\* one call of detect on frames of several sizes
SpecRefine == InitDetector /\ [][NextRefine]_vars

\* analyze with no detection (lines 93-94)
AnalyzeEmpty ==
    /\ pc = "detected"
    /\ results = <<>>
    /\ faces' = <<>>
    /\ pc' = "returned"
    /\ UNCHANGED <<svcVars, cfgVars, reqVars, nmsVars, refVars, clsVars, error>>

\* the two predict calls of analyze (lines 96-100); ga_out and emo_out are
\* the tables the two sessions may return for the detected faces
Classify(ga_out, emo_out) ==
    /\ pc = "detected"
    /\ results # <<>>
    /\ \E ga \in {{<<g, GenderAgePredict(Len(results), g)>> : g \in ga_out}},
          emo \in {{<<e, EmotionPredict(Len(results), e)>> : e \in emo_out}} :
         \E g \in ga, e \in emo :
            /\ gender_age_outputs' = g[1]
            /\ gender_age_results' = g[2]
            /\ emotion_outputs' = e[1]
            /\ emotion_results' = e[2]
    /\ session_runs' = session_runs + SessionRuns(Len(results)) + SessionRuns(Len(results))
    /\ pc' = "aggregate"
    /\ UNCHANGED <<svcVars, cfgVars, reqVars, nmsVars, refVars, outVars>>

\* the aggregation loop and the return of analyze (lines 102-135)
Aggregate ==
    /\ pc = "aggregate"
    /\ IF \E idx \in 1..Len(results) :
             /\ idx <= Len(emotion_results)
             /\ ResolveLabel(emotion_labels, emotion_results[idx][1]).raised
       THEN /\ error' = "TypeError"
            /\ pc' = "raised"
            /\ faces' = faces
       ELSE /\ faces' = [idx \in 1..Len(results) |->
                            AsDict(AggregatedFace(idx, results[idx], gender_age_results,
                                                  emotion_results, emotion_labels))]
            /\ pc' = "returned"
            /\ error' = error
    /\ UNCHANGED <<svcVars, cfgVars, reqVars, nmsVars, refVars, clsVars>>

\* a row of emotion logits: one class above the six others
PeakRow(peak, h) == [k \in 1..7 |-> IF k = peak THEN h ELSE 0]

\* peak probabilities 1/7, 2/5 and 4/7
PeakHeights == {0, 2, 3}

\* emotion session outputs for n faces: at most n rows, the peak moving with
\* the row
EmotionTables(n) ==
    {[i \in 1..k |-> PeakRow(((p + i) % 7) + 1, h)] :
        k \in 0..n, p \in 0..6, h \in PeakHeights}

\* gender/age predictions (female score, male score, age / 100)
GenderAgeRows == <<<<I(1), I(0), Rat(37, 200)>>,
                   <<I(0), I(1), Rat(37, 100)>>,
                   <<Rat(1, 2), Rat(1, 2), Rat(61, 100)>>>>

GenderAgeTables(n) ==
    {[i \in 1..k |-> GenderAgeRows[((g + i) % 3) + 1]] : k \in 0..n, g \in 0..2}

\* a face in slot i, apart from the faces in the other slots
SeparateFace(i) == RawRow(I(40 * i - 88), I(0), I(32), I(32))

\* the first j slots hold a face
SeparateTables ==
    {<<[i \in 1..NumSlots |-> SeparateFace(i)],
       [i \in 1..NumSlots |-> IF i <= j THEN 1 ELSE -2]>> : j \in 0..NumSlots}

\* emotion_labels given to StreamingFaceAnalysis: absent, empty, shorter
\* than the 7 classes, the 7 classes, longer
LabelConfigs ==
    {None, <<>>, <<"a0", "a1", "a2">>,
     <<"l0", "l1", "l2", "l3", "l4", "l5", "l6">>,
     <<"m0", "m1", "m2", "m3", "m4", "m5", "m6", "m7">>}

InitAnalysis ==
    /\ pc = "idle"
    /\ anchors = [i \in 1..NumSlots |-> UnitAnchor]
    /\ back_model = FALSE
    /\ emotion_labels \in LabelConfigs
    /\ raw_boxes = <<>> /\ raw_scores = <<>>
    /\ score_threshold = None /\ nms_threshold = None
    /\ score_thresh = None /\ nms_thresh = None
    /\ detections = <<>> /\ remaining = <<>> /\ output = <<>>
    /\ width = 0 /\ height = 0
    /\ printed = <<>> /\ results = <<>>
    /\ gender_age_outputs = <<>> /\ emotion_outputs = <<>>
    /\ gender_age_results = <<>> /\ emotion_results = <<>>
    /\ session_runs = 0
    /\ faces = None
    /\ error = "none"
    /\ InitService

DetectFaces == Detect(SeparateTables, {None}, {None}, {<<128, 128>>})

ClassifyAny == Classify(GenderAgeTables(Len(results)), EmotionTables(Len(results)))

NextAnalysis ==
    \/ DetectFaces \/ Postprocess \/ NmsStep \/ NmsReturn \/ Refine
    \/ AnalyzeEmpty \/ ClassifyAny \/ Aggregate

\* one call of analyze, the classifier sessions returning any tables
SpecAnalysis == InitAnalysis /\ [][NextAnalysis]_vars

\* a detector of either variant
InitVariant ==
    /\ pc = "idle"
    /\ anchors = [i \in 1..NumSlots |-> UnitAnchor]
    /\ back_model \in BOOLEAN
    /\ emotion_labels = None
    /\ raw_boxes = <<>> /\ raw_scores = <<>>
    /\ score_threshold = None /\ nms_threshold = None
    /\ score_thresh = None /\ nms_thresh = None
    /\ detections = <<>> /\ remaining = <<>> /\ output = <<>>
    /\ width = 0 /\ height = 0
    /\ printed = <<>> /\ results = <<>>
    /\ gender_age_outputs = <<>> /\ emotion_outputs = <<>>
    /\ gender_age_results = <<>> /\ emotion_results = <<>>
    /\ session_runs = 0
    /\ faces = None
    /\ error = "none"
    /\ InitService

\* slots with confidence 1/5, 1/2 and 2/3
ScoredSlots == {<<RawBig, -2>>, <<RawHalf, 0>>, <<RawBig, 1>>}

ScoredTables ==
    {<<[i \in 1..NumSlots |-> f[i][1]], [i \in 1..NumSlots |-> f[i][2]]>> :
        f \in [1..NumSlots -> ScoredSlots]}

\* thresholds a caller may pass (the service accepts 0.0 to 1.0) or omit
CallerScoreThresholds == {None, I(0), Rat(3, 5), I(1)}
CallerNmsThresholds == {None, I(0), Rat(3, 5)}

DetectWithThresholds ==
    Detect(ScoredTables, CallerScoreThresholds, CallerNmsThresholds, {<<128, 128>>})

NextThresholds == DetectWithThresholds \/ Postprocess \/ NmsStep \/ NmsReturn

\* one call of detect on either variant, thresholds supplied or omitted
SpecThresholds == InitVariant /\ [][NextThresholds]_vars

\* anchor tables with rows of full and of half size
AnchorTables == [1..NumSlots -> {UnitAnchor, HalfAnchor}]

\* a detector of either variant over any of these anchor tables
InitAnchors ==
    /\ pc = "idle"
    /\ anchors \in AnchorTables
    /\ back_model \in BOOLEAN
    /\ emotion_labels = None
    /\ raw_boxes = <<>> /\ raw_scores = <<>>
    /\ score_threshold = None /\ nms_threshold = None
    /\ score_thresh = None /\ nms_thresh = None
    /\ detections = <<>> /\ remaining = <<>> /\ output = <<>>
    /\ width = 0 /\ height = 0
    /\ printed = <<>> /\ results = <<>>
    /\ gender_age_outputs = <<>> /\ emotion_outputs = <<>>
    /\ gender_age_results = <<>> /\ emotion_results = <<>>
    /\ session_runs = 0
    /\ faces = None
    /\ error = "none"
    /\ InitService

DetectDecoded == Detect(ScoredTables, {None}, {None}, {<<128, 128>>})

NextDecode == DetectDecoded \/ Postprocess \/ NmsStep \/ NmsReturn

\* one call of detect, the anchors of any size
SpecDecode == InitAnchors /\ [][NextDecode]_vars

----------------------------------------------------------------------------
(* service_api: the pipeline handle and the /analyze requests.             *)

\* calls of the service (startup, get_pipeline, analyze_image) that are followed
MaxCalls == 3

\* the n-th StreamingFaceAnalysis instance of the process
Instance(n) == [instance |-> n]

\* a get_pipeline that turns a failed construction into a return of None
get_pipeline_swallowing(handle, count, loads) ==
    IF handle # PyNone
    THEN [raised |-> FALSE, handle |-> handle, value |-> handle, count |-> count]
    ELSE IF loads
         THEN [raised |-> FALSE, handle |-> Instance(count + 1),
               value |-> Instance(count + 1), count |-> count + 1]
         ELSE [raised |-> FALSE, handle |-> PyNone, value |-> PyNone, count |-> count]

\* get_pipeline (lines 39-43) called with _pipeline = handle after count
\* constructions; loads: StreamingFaceAnalysis() finds and loads its
\* artifacts.  A constructor that raises leaves the assignment undone
get_pipeline(handle, count, loads) ==
    IF handle # PyNone
    THEN [raised |-> FALSE, handle |-> handle, value |-> handle, count |-> count]
    ELSE IF loads
         THEN [raised |-> FALSE, handle |-> Instance(count + 1),
               value |-> Instance(count + 1), count |-> count + 1]
         ELSE [raised |-> TRUE, handle |-> PyNone, value |-> PyNone, count |-> count]

\* the effect of one call of get_pipeline on the module state
GetPipelineEffect(r) ==
    /\ global_pipeline' = r.handle
    /\ constructed' = r.count
    /\ returned' = IF r.raised THEN returned ELSE returned \cup {r.value}
    /\ calls' = calls + 1

\* the startup event: _load_models (lines 46-48)
LoadModels ==
    /\ app = "created"
    /\ svc = "ready"
    /\ calls < MaxCalls
    /\ \E loads \in BOOLEAN :
         \E r \in {get_pipeline(global_pipeline, constructed, loads)} :
            /\ GetPipelineEffect(r)
            /\ app' = IF r.raised THEN "failed" ELSE "started"
    /\ UNCHANGED <<pc, cfgVars, reqVars, nmsVars, refVars, clsVars, outVars,
                   svc, pipeline, response>>

\* a call of get_pipeline from elsewhere
CallGetPipeline ==
    /\ svc = "ready"
    /\ calls < MaxCalls
    /\ \E loads \in BOOLEAN :
         \E r \in {get_pipeline(global_pipeline, constructed, loads)} :
            GetPipelineEffect(r)
    /\ UNCHANGED <<pc, cfgVars, reqVars, nmsVars, refVars, clsVars, outVars,
                   app, svc, pipeline, response>>

\* analyze_image on an empty or undecodable upload (lines 72-79)
AnalyzeImageRejected ==
    /\ app # "failed"
    /\ svc = "ready"
    /\ calls < MaxCalls
    /\ calls' = calls + 1
    /\ response' = 400
    /\ UNCHANGED <<pc, cfgVars, reqVars, nmsVars, refVars, clsVars, outVars,
                   app, global_pipeline, constructed, svc, pipeline, returned>>

\* analyze_image up to pipeline = get_pipeline() (line 81); an exception
\* of the constructor ends the request
AnalyzeImageGetPipeline ==
    /\ app # "failed"
    /\ svc = "ready"
    /\ calls < MaxCalls
    /\ \E loads \in BOOLEAN :
         \E r \in {get_pipeline(global_pipeline, constructed, loads)} :
            /\ GetPipelineEffect(r)
            /\ IF r.raised
               THEN /\ response' = 500
                    /\ UNCHANGED <<svc, pipeline>>
               ELSE /\ pipeline' = r.value
                    /\ svc' = "analyze"
                    /\ response' = response
    /\ UNCHANGED <<pc, cfgVars, reqVars, nmsVars, refVars, clsVars, outVars, app>>

\* pipeline.analyze(...) (lines 82-86): an attribute of None cannot be read
AnalyzeOnHandle ==
    /\ svc = "analyze"
    /\ pc = "idle"
    /\ IF pipeline = PyNone
       THEN /\ error' = "AttributeError"
            /\ pc' = "raised"
            /\ UNCHANGED <<svcVars, cfgVars, reqVars, nmsVars, refVars, clsVars, faces>>
       ELSE Detect(SeparateTables, {None}, {None}, {<<128, 128>>})

\* the two classifiers, each returning one row per face
ClassifyFaces ==
    Classify({[i \in 1..Len(results) |-> GenderAgeRows[1]]},
             {[i \in 1..Len(results) |-> PeakRow(4, 3)]})

\* the response of analyze_image (lines 87-92), or of the server to an
\* exception; the objects of the request are discarded
Respond ==
    /\ svc = "analyze"
    /\ pc \in {"returned", "raised"}
    /\ response' = IF pc = "returned" THEN 200 ELSE 500
    /\ svc' = "ready"
    /\ pipeline' = PyNone
    /\ pc' = "idle"
    /\ raw_boxes' = <<>> /\ raw_scores' = <<>>
    /\ score_threshold' = None /\ nms_threshold' = None
    /\ score_thresh' = None /\ nms_thresh' = None
    /\ width' = 0 /\ height' = 0
    /\ detections' = <<>> /\ remaining' = <<>> /\ output' = <<>>
    /\ printed' = <<>> /\ results' = <<>>
    /\ gender_age_outputs' = <<>> /\ emotion_outputs' = <<>>
    /\ gender_age_results' = <<>> /\ emotion_results' = <<>>
    /\ session_runs' = 0
    /\ faces' = None
    /\ error' = "none"
    /\ UNCHANGED <<cfgVars, app, global_pipeline, constructed, calls, returned>>

NextService ==
    \/ LoadModels \/ CallGetPipeline \/ AnalyzeImageRejected
    \/ AnalyzeImageGetPipeline \/ AnalyzeOnHandle
    \/ Postprocess \/ NmsStep \/ NmsReturn \/ Refine
    \/ AnalyzeEmpty \/ ClassifyFaces \/ Aggregate \/ Respond

\* the service: startup, get_pipeline and /analyze requests in any order
Spec == InitDetector /\ [][NextService]_vars

----------------------------------------------------------------------------
(* Claims about weighted suppression (SpecNms).                            *)

Range(f) == {f[i] : i \in DOMAIN f}

\* the detections with the highest score of the thresholded input
TopScoring == {t \in 1..Len(detections) :
                  \A i \in 1..Len(detections) : RGe(detections[t][17], detections[i][17])}

\* e is the score-weighted mean of the detections members: 16 coordinates
\* weighted by score, score = sum of the scores / count
IsWeightedMerge(e, members) ==
    LET scores == [k \in 1..Len(members) |-> detections[members[k]][17]]
    IN  /\ \A j \in 1..16 :
              RMul(e[j], RSum(scores)) =
                  RSum([k \in 1..Len(members) |->
                           RMul(detections[members[k]][j], scores[k])])
        /\ RMul(e[17], I(Len(members))) = RSum(scores)

\* C1: weighted suppression terminates: every iteration of the loop removes
\* at least the current candidate from the remaining set.
C1_EveryIterationShrinksRemaining ==
    [][(pc = "nms" /\ pc' = "nms") => Len(remaining') < Len(remaining)]_vars

\* C2: when suppression returns it has emitted no more detections than it
\* was given, and the first emitted detection is a highest-scoring input
\* detection, unchanged, or the weighted merge of a set of inputs that
\* contains one.
C2_NoGrowthAndTopKept ==
    /\ pc = "refine" => Len(output) <= Len(detections)
    /\ (pc \in {"nms", "refine"} /\ output # <<>>) =>
          \E t \in TopScoring :
              \/ output[1] = detections[t]
              \/ \E S \in SUBSET (1..Len(detections)) :
                    /\ t \in S
                    /\ Cardinality(S) > 1
                    /\ IsWeightedMerge(output[1],
                                       SelectSeq([i \in 1..Len(detections) |-> i],
                                                 LAMBDA i : i \in S))
    /\ (pc = "refine" /\ detections # <<>>) => output # <<>>

\* C2 witness: suppression returned fewer detections than it was given, the
\* first one a merge that contains the highest-scoring input.
C2_Witness ==
    /\ pc = "refine"
    /\ Len(detections) = 2
    /\ Len(output) = 1
    /\ output[1] \notin Range(detections)
    /\ RGt(detections[1][17], detections[2][17])

\* the scenario of C7: two thresholded detections with IoU 1/2, threshold 0.3
ScenarioA ==
    /\ Len(detections) = 2
    /\ Jaccard(detections[1], detections[2]) = Rat(1, 2)
    /\ nms_thresh = Rat(3, 10)

\* C7: an iteration whose overlapping set has more than one member emits the
\* score-weighted mean of the members' 16 coordinates with score
\* sum / count; one whose set has one member emits the candidate unchanged;
\* two detections with IoU 0.5 at threshold 0.3 yield one detection with
\* score (s1 + s2) / 2.
C7_MergeIsWeightedMean ==
    /\ [][(pc = "nms" /\ output' # output) =>
            LET e == output'[Len(output')]
                members == SelectSeq(remaining, LAMBDA i : i \notin Range(remaining'))
            IN  /\ Len(members) > 1 => IsWeightedMerge(e, members)
                /\ Len(members) = 1 => e = detections[remaining[1]]]_vars
    /\ []((pc = "refine" /\ ScenarioA) =>
            /\ Len(output) = 1
            /\ output[1][17] =
                  RDiv(RAdd(detections[1][17], detections[2][17]), I(2)))

\* C7 witness: scenario A has been suppressed to one merged detection.
C7_Witness ==
    /\ pc = "refine"
    /\ ScenarioA
    /\ Len(output) = 1
    /\ detections[1][17] # detections[2][17]
    /\ output[1][4] # detections[1][4]
    /\ output[1][4] # detections[2][4]

----------------------------------------------------------------------------
(* Claims about the Detections returned by detect (SpecRefine).            *)

Faces == 1..Len(results)

\* the gaps of returned detection i, from its returned keypoints
GapLeft(i) == Abs(results[i].keypoints[5][1] - results[i].keypoints[1][1])
GapRight(i) == Abs(results[i].keypoints[6][1] - results[i].keypoints[2][1])

\* the raw clamped box of returned detection i
RawBox(i) == RawClampedBox(output[i], width, height)

\* one gap is strictly greater than twice the other
OneGapOverTwice(i) == GapLeft(i) > 2 * GapRight(i) \/ GapRight(i) > 2 * GapLeft(i)

\* C4: every returned Detection has xmin < xmax and ymin < ymax, and all its
\* box and keypoint coordinates lie in [0, width-1] x [0, height-1].
C4_DetectionInvariant ==
    pc = "detected" =>
        \A i \in Faces :
            LET b == results[i].box
            IN  /\ b[1] < b[3]
                /\ b[2] < b[4]
                /\ \A x \in {b[1], b[3]} : 0 <= x /\ x <= width - 1
                /\ \A y \in {b[2], b[4]} : 0 <= y /\ y <= height - 1
                /\ \A k \in 1..6 :
                      /\ 0 <= results[i].keypoints[k][1]
                      /\ results[i].keypoints[k][1] <= width - 1
                      /\ 0 <= results[i].keypoints[k][2]
                      /\ results[i].keypoints[k][2] <= height - 1

\* C8: detect declares a face highly tilted exactly when both gaps are
\* nonzero and one is strictly greater than twice the other, and the box of
\* a tilted face is the raw clamped box; gaps 10 and 30 are tilted.
C8_TiltedIffGapsNonzeroAndOverTwice ==
    pc = "detected" =>
        /\ Len(printed) = Len(results)
        /\ \A i \in Faces :
              /\ printed[i].left_gap = GapLeft(i)
              /\ printed[i].right_gap = GapRight(i)
              /\ printed[i].highly_tilted <=>
                    (GapLeft(i) # 0 /\ GapRight(i) # 0 /\ OneGapOverTwice(i))
              /\ printed[i].highly_tilted => results[i].box = RawBox(i)
              /\ (GapLeft(i) = 10 /\ GapRight(i) = 30) =>
                    (printed[i].highly_tilted /\ results[i].box = RawBox(i))

\* C8 witness: a face with gaps 10 and 30 was declared tilted and kept its
\* raw clamped box, which tightening would have changed.
C8_Witness ==
    /\ pc = "detected"
    /\ \E i \in Faces :
          /\ GapLeft(i) = 10 /\ GapRight(i) = 30
          /\ printed[i].highly_tilted
          /\ results[i].box = RawBox(i)
          /\ TightenedSpan(results[i].keypoints, width) # <<RawBox(i)[1], RawBox(i)[3]>>

\* C9 as stated: whenever one gap is greater than twice the other, the
\* smaller gap being zero included, the returned box is the raw clamped box.
C9_AnyGapOverTwiceBypasses ==
    pc = "detected" =>
        \A i \in Faces : OneGapOverTwice(i) => results[i].box = RawBox(i)

\* C9 (amended): whenever both gaps are nonzero and one is greater than
\* twice the other the returned box is the raw clamped box; a returned box
\* that differs from the raw clamped box belongs to a face for which that
\* condition is false.
C9_NonzeroGapOverTwiceBypasses ==
    pc = "detected" =>
        \A i \in Faces :
            /\ (GapLeft(i) > 0 /\ GapRight(i) > 0 /\ OneGapOverTwice(i))
                  => results[i].box = RawBox(i)
            /\ results[i].box # RawBox(i)
                  => ~(GapLeft(i) > 0 /\ GapRight(i) > 0 /\ OneGapOverTwice(i))

\* C9 witness: a face with gaps 10 and 21 kept its raw clamped box, and a
\* face with gaps 10 and 20 in the same frame size was tightened.
C9_Witness ==
    /\ pc = "detected"
    /\ \E i \in Faces :
          /\ GapLeft(i) = 10 /\ GapRight(i) = 21
          /\ results[i].box = RawBox(i)
          /\ TightenedSpan(results[i].keypoints, width) # <<RawBox(i)[1], RawBox(i)[3]>>


----------------------------------------------------------------------------
(* Claims about analyze (SpecAnalysis).                                    *)

\* the emotion results and the faces of a call that has returned
Classified == 1..Len(emotion_results)
Returned == pc = "returned" /\ results # <<>>

\* the maximum softmax probability of logit row i is below 0.5
LowConfidence(i) ==
    \A p \in {Softmax(emotion_outputs[i])} : \A k \in 1..Len(p) : RLt(p[k], Rat(1, 2))

\* the label of a record as the rule of label resolution gives it
LabelByRule(label_idx) ==
    IF /\ emotion_labels # None
       /\ label_idx.t = "int"
       /\ 0 <= label_idx.i
       /\ label_idx.i < Len(emotion_labels)
    THEN PyStr(emotion_labels[label_idx.i + 1])
    ELSE label_idx

\* C3: for every logit row whose maximum softmax probability is below 0.5
\* the class reported by postprocess is the sentinel -1, and with no label
\* list configured -1 is the emotion label of the aggregated record
C3_LowConfidenceIsUnknown ==
    /\ \A i \in Classified :
         LowConfidence(i) => emotion_results[i][1] = PyInt(-1)
    /\ (Returned /\ emotion_labels = None) =>
         \A i \in Classified :
            LowConfidence(i) => faces[i].emotion.label = PyInt(-1)

\* C5: with result lists no longer than the detections, aggregation
\* completes without error and returns one record per detection in
\* detection order; record i takes gender/age_bucket and the emotion fields
\* from result i when it exists, and they are None otherwise
C5_ShortResultListsTolerated ==
    /\ pc # "raised"
    /\ error = "none"
    /\ Returned =>
         /\ Len(faces) = Len(results)
         /\ \A i \in 1..Len(results) :
              /\ faces[i].bbox.xmin = results[i].box[1]
              /\ faces[i].bbox.xmax = results[i].box[3]
              /\ faces[i].score = results[i].score
              /\ IF i <= Len(gender_age_results)
                 THEN /\ faces[i].gender = gender_age_results[i][1]
                      /\ faces[i].age_bucket = gender_age_results[i][2]
                 ELSE /\ faces[i].gender = None
                      /\ faces[i].age_bucket = None
              /\ IF i <= Len(emotion_results)
                 THEN /\ faces[i].emotion # PyNone
                      /\ faces[i].emotion.confidence = emotion_results[i][2]
                      /\ faces[i].emotion.distribution = emotion_results[i][3]
                 ELSE faces[i].emotion = PyNone

\* C6: label resolution never fails; for every emotion result and every
\* label list the label of the record is the list entry at the class index
\* when a list is supplied and the index is within bounds, and the class
\* index unchanged otherwise
C6_LabelResolutionNeverFails ==
    /\ pc = "aggregate" => \A i \in Classified :
                              ~ResolveLabel(emotion_labels, emotion_results[i][1]).raised
    /\ error # "TypeError"
    /\ Returned =>
         \A i \in Classified :
            faces[i].emotion.label = LabelByRule(emotion_results[i][1])

\* no slot of the detector output reaches the score threshold
NoSlotPasses ==
    /\ raw_scores # <<>>
    /\ \A i \in 1..Len(raw_scores) : RLt(DetectionScore(raw_scores[i]), score_thresh)

\* C10: when no slot reaches the score threshold the detector returns no
\* detection and analyze returns {"faces": []}, without an error and without
\* a run of a classifier session; a predictor given an empty batch returns
\* an empty list
C10_NoDetectionReturnsNoFaces ==
    /\ (NoSlotPasses /\ pc \in {"nms", "refine", "detected"}) =>
         (detections = <<>> /\ output = <<>>)
    /\ (NoSlotPasses /\ pc \in {"detected", "aggregate", "raised", "returned"}) =>
         (results = <<>> /\ pc \in {"detected", "returned"})
    /\ (NoSlotPasses /\ pc = "returned") =>
         (faces = <<>> /\ error = "none" /\ session_runs = 0)
    /\ EmotionPredict(0, emotion_outputs) = <<>>
    /\ GenderAgePredict(0, gender_age_outputs) = <<>>
    /\ SessionRuns(0) = 0

\* a call has returned no face for a frame where no slot passed
C10_Witness ==
    /\ NoSlotPasses
    /\ pc = "returned"
    /\ faces = <<>>
    /\ session_runs = 0

\* the other calls return faces after two session runs
C10_FacesClassified ==
    (pc = "returned" /\ ~NoSlotPasses) => (faces # <<>> /\ session_runs = 2)

----------------------------------------------------------------------------
(* Claims about the score threshold and the decode (SpecNms).              *)

\* the slots whose sigmoid confidence is at or above the score threshold
PassingSlots ==
    {i \in 1..Len(raw_scores) : RGe(DetectionScore(raw_scores[i]), score_thresh)}

\* the k-th passing slot in slot order
SlotOf(k) ==
    CHOOSE i \in PassingSlots : Cardinality({j \in PassingSlots : j < i}) = k - 1

\* the row of slot i that enters suppression
DecodedSlot(i) ==
    DecodeRow(raw_boxes[i], anchors[i], x_scale(back_model))
        \o <<DetectionScore(raw_scores[i])>>

\* e is a candidate unchanged or the weighted merge of a set of candidates
FromCandidates(e) ==
    \E S \in SUBSET (1..Len(detections)) :
        /\ S # {}
        /\ IF Cardinality(S) = 1
           THEN \E i \in S : e = detections[i]
           ELSE IsWeightedMerge(e, SelectSeq([i \in 1..Len(detections) |-> i],
                                             LAMBDA i : i \in S))

\* C11: the rows that enter suppression are exactly the slots whose
\* confidence is at or above the score threshold, in slot order; a slot below
\* the threshold is no candidate, is in no remaining or overlapping set and
\* contributes to no emitted detection
C11_BelowThresholdDroppedBeforeNms ==
    pc \in {"nms", "refine"} =>
        /\ Len(detections) = Cardinality(PassingSlots)
        /\ \A k \in 1..Len(detections) : detections[k] = DecodedSlot(SlotOf(k))
        /\ Range(remaining) \subseteq 1..Len(detections)
        /\ \A k \in 1..Len(output) : FromCandidates(output[k])

\* C11 witness: suppression has run on fewer rows than there are slots
C11_Witness ==
    /\ pc = "refine"
    /\ output # <<>>
    /\ PassingSlots # {}
    /\ Cardinality(PassingSlots) < Len(raw_scores)
    /\ Len(detections) < Len(raw_scores)

\* the slots whose confidence is at or above thresh
SlotsAtOrAbove(thresh) ==
    {i \in 1..Len(raw_scores) : RGe(DetectionScore(raw_scores[i]), thresh)}

\* the pairs of detections whose IoU is above thresh
PairsAbove(thresh) ==
    {p \in (1..Len(detections)) \X (1..Len(detections)) :
        RGt(Jaccard(detections[p[1]], detections[p[2]]), thresh)}

\* the thresholds the call must use: the caller's when supplied, else 0.25
\* (front) or 0.65 (back) for the score and 0.3 for the IoU
ExpectedScoreThresh ==
    IF score_threshold # None THEN score_threshold
    ELSE IF back_model THEN Rat(65, 100) ELSE Rat(25, 100)
ExpectedNmsThresh ==
    IF nms_threshold # None THEN nms_threshold ELSE Rat(3, 10)

\* C12: detect uses the caller's score_threshold and nms_threshold whenever
\* they are supplied, 0.0 included, and otherwise 0.25 (front) or 0.65 (back)
\* and IoU 0.3: the slots that enter suppression are those at or above that
\* score threshold, and the first iteration removes the candidates whose IoU
\* with the first one is above that IoU threshold
C12_ThresholdsSuppliedOrDefault ==
    /\ [](pc # "idle" =>
            /\ score_thresh = ExpectedScoreThresh
            /\ nms_thresh = ExpectedNmsThresh)
    /\ [](pc \in {"nms", "refine"} =>
            Len(detections) = Cardinality(SlotsAtOrAbove(ExpectedScoreThresh)))
    /\ [][(pc = "nms" /\ output' # output) =>
            Range(remaining') =
                {i \in Range(remaining) :
                    <<remaining[1], i>> \notin PairsAbove(ExpectedNmsThresh)}]_vars

\* C12 witness: the back detector with the score threshold omitted and an
\* IoU threshold of 0.0 supplied has merged two detections
C12_Witness ==
    /\ pc = "refine"
    /\ back_model
    /\ score_threshold = None
    /\ nms_threshold # None
    /\ nms_threshold = I(0)
    /\ score_thresh = Rat(13, 20)
    /\ nms_thresh = I(0)
    /\ Len(detections) = 2
    /\ Len(output) = 1

\* C13: the IoU of suppression is symmetric, and the IoU of a box of
\* positive area with itself is 1, so that a candidate of positive area
\* overlaps itself above every threshold below 1
C13_IouSymmetricAndReflexive ==
    pc \in {"nms", "refine"} =>
        \A i, j \in 1..Len(detections) :
            /\ Jaccard(detections[i], detections[j]) = Jaccard(detections[j], detections[i])
            /\ RGt(BoxArea(detections[i]), I(0)) =>
                  /\ Jaccard(detections[i], detections[i]) = I(1)
                  /\ RLt(nms_thresh, I(1)) =>
                        Overlaps(detections, i, i, nms_thresh)

----------------------------------------------------------------------------
(* Claims about box tightening (SpecRefine).                               *)

\* |ear_right.x - ear_left.x| and the nose x of returned detection i
EarDistance(i) == Abs(results[i].keypoints[6][1] - results[i].keypoints[5][1])
NoseX(i) == I(results[i].keypoints[3][1])

\* h = max(0.95 x |ear_right.x - ear_left.x| / 2, 1.0)
HalfSpan(i) == RMax(RMul(Rat(95, 100), Rat(EarDistance(i), 2)), I(1))

\* the span nose.x -/+ h lies inside the frame
SpanFits(i) ==
    /\ RGe(RSub(NoseX(i), HalfSpan(i)), I(0))
    /\ RLe(RAdd(NoseX(i), HalfSpan(i)), I(width - 1))

\* C14: the box of a face that is not tilted and whose tightened span fits
\* inside the frame has xmin = round(nose.x - h) and xmax = round(nose.x + h)
\* with h = max(0.95 x |ear_right.x - ear_left.x| / 2, 1.0), whichever of
\* keypoints 4 and 5 lies further left
C14_TightenedSpanFromAbsoluteEarDistance ==
    pc = "detected" =>
        \A i \in Faces :
            (~printed[i].highly_tilted /\ SpanFits(i)) =>
                /\ results[i].box[1] = RRound(RSub(NoseX(i), HalfSpan(i)))
                /\ results[i].box[3] = RRound(RAdd(NoseX(i), HalfSpan(i)))

\* C15: whether the face is tilted or not, ymin and ymax of the returned box
\* are the clamped pixel-scaled values of the suppressed detection, and the
\* returned keypoints and score are its clamped pixel-scaled keypoints and
\* its score
C15_TighteningOnlyHorizontal ==
    pc = "detected" =>
        /\ Len(results) = Len(output)
        /\ \A i \in Faces :
              /\ results[i].box[2] = ClampPx(output[i][1], height)
              /\ results[i].box[4] = ClampPx(output[i][3], height)
              /\ Len(results[i].keypoints) = 6
              /\ \A k \in 1..6 :
                    results[i].keypoints[k] =
                        <<ClampPx(output[i][3 + 2 * k], width),
                          ClampPx(output[i][4 + 2 * k], height)>>
              /\ results[i].score = output[i][17]

\* C15 witness: a face that is not tilted has been tightened, its box
\* narrower than high
C15_Witness ==
    /\ pc = "detected"
    /\ \E i \in Faces :
          /\ ~printed[i].highly_tilted
          /\ results[i].box[1] # RawBox(i)[1]
          /\ results[i].box[3] # RawBox(i)[3]
          /\ results[i].box[4] - results[i].box[2] # results[i].box[3] - results[i].box[1]
          /\ results[i].box[4] > results[i].box[2]

\* raw offset v of slot i over the scale of the detector, plus c
OffsetPlus(v, c) == RAdd(RDiv(v, I(x_scale(back_model))), c)

\* the row of slot i decoded as: centre and keypoints = raw / scale + anchor
\* centre, size = raw / scale x anchor size, corners = centre -/+ size / 2
DecodedFromCentre(i) ==
    LET raw == raw_boxes[i]
        a == anchors[i]
        x_center == OffsetPlus(raw[1], a[1])
        y_center == OffsetPlus(raw[2], a[2])
        w == RMul(RDiv(raw[3], I(x_scale(back_model))), a[3])
        h == RMul(RDiv(raw[4], I(x_scale(back_model))), a[4])
    IN  <<RSub(y_center, RDiv(h, I(2))), RSub(x_center, RDiv(w, I(2))),
          RAdd(y_center, RDiv(h, I(2))), RAdd(x_center, RDiv(w, I(2)))>>
        \o [j \in 1..12 |-> OffsetPlus(raw[4 + j], a[IF j % 2 = 1 THEN 1 ELSE 2])]

\* C16: for every anchor table the decoded centre and the six decoded
\* keypoints of a slot are raw offset / scale + anchor centre, whatever the
\* anchor's width and height; the size is raw[2:4] / scale x anchor[2:4] and
\* the corners are centre -/+ size / 2 in the order (ymin, xmin, ymax, xmax)
C16_DecodeCentreIgnoresAnchorSize ==
    pc \in {"nms", "refine"} =>
        \A k \in 1..Len(detections) :
            SubSeq(detections[k], 1, 16) = DecodedFromCentre(SlotOf(k))

----------------------------------------------------------------------------
(* Claims about the service (Spec).                                        *)

\* C17: over any sequence of startup, get_pipeline and analyze_image calls
\* the handle is set only by a construction that succeeded: while none has
\* succeeded the handle is None, one construction at most succeeds, every
\* get_pipeline call that returns, returns that one instance, and
\* analyze_image runs pipeline.analyze on that instance, never on None
C17_HandlePublishedAfterConstruction ==
    /\ constructed <= 1
    /\ constructed = 0 => global_pipeline = PyNone
    /\ constructed = 1 => global_pipeline = Instance(1)
    /\ \A h \in returned : h # PyNone /\ h = global_pipeline
    /\ svc = "analyze" => (pipeline # PyNone /\ pipeline = global_pipeline)
    /\ svc = "ready" => pc = "idle"
    /\ error # "AttributeError"

\* C17 witness: a request failed on the construction and left the handle
\* unset; a later request constructed the pipeline and analyze has returned
\* on that instance
C17_Witness ==
    /\ svc = "analyze"
    /\ pc = "returned"
    /\ response = 500
    /\ constructed = 1
    /\ pipeline = Instance(1)
    /\ returned = {Instance(1)}

============================================================================
